---- MODULE Spec2Model ----
(***************************************************************************)
(* Celix remote services: the shared-memory RSA import registration        *)
(* (rsa_shm_import_registration.c) and the JSON RPC export endpoint        *)
(* (rsa_json_rpc_endpoint_impl.c).                                         *)
(*                                                                         *)
(* Three scenarios share the variables; Init picks one of them:            *)
(*   "create"  one call of importRegistration_create or                    *)
(*             rsaJsonRpcEndpoint_create on a drawn input;                 *)
(*   "import"  the life of a constructed import registration: its tracker  *)
(*             callbacks on the framework event thread, and destroy;       *)
(*   "export"  the life of a constructed export endpoint: its tracker      *)
(*             callbacks, request threads in handleRequest, and destroy.   *)
(*                                                                         *)
(* A second specification, ShmSpec, is the shared-memory transport the     *)
(* headers rsa_shm_msg.h and rsa_shm_constants.h declare: pool slots with  *)
(* their control block, calling and serving threads, and the admission     *)
(* control and circuit breaker of each destination.                        *)
(***************************************************************************)
EXTENDS Integers, Sequences, FiniteSets, TLC

VARIABLES
    scenario,     \* which of the three scenarios this behaviour explores
    \* ---- construction (both create functions) ----
    crIn,         \* the arguments of the create call
    crPc,         \* "start" before the call, "done" after it returned
    crRes,        \* what the call left behind: status, out handle, heap, tracker
    \* ---- import registration ----
    import,       \* heap state of the import_registration object and its clone
    rpcFac,       \* import->rpcFac
    proxySvcId,   \* import->proxySvcId
    impTrk,       \* the rpc factory tracker: state and tracked codecs
    codecs,       \* rpc factory services registered in the framework
    proxies,      \* the codecs' live proxies: proxy id -> creating codec
    proxyLog,     \* createProxy / destroyProxy calls made so far
    impEvt,       \* what the event thread is running for the import registration
    impUaf,       \* a callback touched the registration after it was freed
    \* ---- export endpoint ----
    endpoint,     \* heap state of the rsa_json_rpc_endpoint object, clone, mutex
    mutex,        \* owner of endpoint->mutex
    service,      \* endpoint->service
    intfType,     \* endpoint->intfType: a descriptor id, 0 for NULL
    descs,        \* interface descriptors: parsed so far, released so far
    epTrk,        \* the service tracker: state, registered and tracked service
    epEvt,        \* what the event thread is running for the endpoint
    epUaf,        \* threads that touched the endpoint after it was freed
    req,          \* per request thread: position in handleRequest and its locals
    \* ---- shared-memory transport (message protocol, admission, breaker) ----
    shmSlot,      \* per pool slot: allocation, version, control block, buffer
    shmCaller,    \* per calling thread: position in the call and its locals
    shmCallee,    \* per serving thread: position in the reply and its slot handle
    shmDest,      \* per destination: in-flight calls, failure counter, breaker
    shmResult,    \* the status the call that ended last returned to its caller
    shmQueue      \* requests signalled and not yet taken up: slot and version

createVars == <<crIn, crPc, crRes>>
importVars == <<import, rpcFac, proxySvcId, impTrk, codecs, proxies, proxyLog, impEvt, impUaf>>
exportVars == <<endpoint, mutex, service, intfType, descs, epTrk, epEvt, epUaf, req>>
shmVars == <<shmSlot, shmCaller, shmCallee, shmDest, shmResult, shmQueue>>
vars == <<scenario, crIn, crPc, crRes,
          import, rpcFac, proxySvcId, impTrk, codecs, proxies, proxyLog, impEvt, impUaf,
          endpoint, mutex, service, intfType, descs, epTrk, epEvt, epUaf, req,
          shmSlot, shmCaller, shmCallee, shmDest, shmResult, shmQueue>>

----------------------------------------------------------------------------
(* Values *)

NULL == "NULL"

CELIX_SUCCESS == "CELIX_SUCCESS"
CELIX_ILLEGAL_ARGUMENT == "CELIX_ILLEGAL_ARGUMENT"
CELIX_ILLEGAL_STATE == "CELIX_ILLEGAL_STATE"
CELIX_SERVICE_EXCEPTION == "CELIX_SERVICE_EXCEPTION"
\* a non-zero errno value of celixThreadMutex_create
CELIX_ENOMEM == "CELIX_ENOMEM"

----------------------------------------------------------------------------
(* Bounds *)

\* longest service.imported.configs value, in symbols
MaxLen == 4
\* the symbol "X" stands for a run of this many ordinary characters
LongRun == 119
\* proxy service ids a codec can hand out before createProxy only fails
MaxProxies == 3
\* interface descriptors that can be parsed before parsing only fails
MaxDescs == 2

\* versions of one slot that handles or messages are still out for
MaxVersion == 2
\* no further call is made to a destination that failed this often in a row
MaxFailures == 3
\* slots of the memory pool
MaxSlots == 1
\* configured maximum of concurrent invocations per destination (the default,
\* RSA_SHM_MAX_CONCURRENT_INVOCATIONS_DEFAULT, is 32)
MaxConcurrentInvocations == 1
\* consecutive failures that open the breaker
\* (RSA_SHM_MAX_INVOKED_SVC_FAILURES is 15)
MaxConsecutiveFailures == 2
\* breaker cooldown in clock ticks (RSA_SHM_MAX_SVC_BREAKED_TIME_IN_S is 60)
BreakerCooldown == 2

----------------------------------------------------------------------------
(* Strings: a string is a sequence of symbols *)

\* sizeof(filter)
FilterSize == 128

Alphabet == {",", " ", "r", ".", "x", "X"}

\* the recognised prefix of an rpc type configuration, as symbols
RSA_RPC_TYPE_PREFIX == <<"r", ".">>
\* the property key the tracker filter is built on, as symbols
RSA_RPC_TYPE_KEY == <<"k", "e", "y">>

ConfigStrings == UNION {[1..n -> Alphabet] : n \in 0..MaxLen}

Width(ch) == IF ch = "X" THEN LongRun ELSE 1

\* strlen
RECURSIVE StrLen(_)
StrLen(s) == IF s = <<>> THEN 0 ELSE Width(Head(s)) + StrLen(Tail(s))

\* strtok_r over the whole string with delimiter ",": the maximal runs of
\* non-delimiter symbols, in order; empty runs are skipped.
RECURSIVE StrTok(_, _)
StrTok(s, cur) ==
    IF s = <<>>
    THEN IF cur = <<>> THEN <<>> ELSE <<cur>>
    ELSE IF Head(s) = ","
         THEN IF cur = <<>> THEN StrTok(Tail(s), <<>>)
                            ELSE <<cur>> \o StrTok(Tail(s), <<>>)
         ELSE StrTok(Tail(s), Append(cur, Head(s)))

RECURSIVE TrimLeading(_)
TrimLeading(s) ==
    IF s # <<>> /\ Head(s) = " " THEN TrimLeading(Tail(s)) ELSE s

RECURSIVE TrimTrailing(_)
TrimTrailing(s) ==
    IF Len(s) > 1 /\ s[Len(s)] = " " THEN TrimTrailing(SubSeq(s, 1, Len(s) - 1)) ELSE s

\* utils_stringTrim: skips the leading blanks, cuts the trailing ones (while
\* end > copy) and moves the result to the start of the token's buffer, so the
\* token itself is trimmed.
utils_stringTrim(tok) == TrimTrailing(TrimLeading(tok))

\* strncmp(t, p, sizeof(p) - 1) == 0
StrNCmpEq(t, p) == Len(t) >= Len(p) /\ SubSeq(t, 1, Len(p)) = p

\* rsaRpcType == NULL: no token was found (a token is never empty)
NoRpcType == <<>>

\* The loop of lines 72-79: the first token whose trimmed text starts with the
\* prefix, or none.
RECURSIVE FirstRpcType(_)
FirstRpcType(toks) ==
    IF toks = <<>> THEN NoRpcType
    ELSE IF StrNCmpEq(utils_stringTrim(Head(toks)), RSA_RPC_TYPE_PREFIX)
         THEN utils_stringTrim(Head(toks))
         ELSE FirstRpcType(Tail(toks))

RsaRpcType(configs) == FirstRpcType(StrTok(configs, <<>>))

\* snprintf(filter, sizeof(filter), "(%s=%s)", RSA_RPC_TYPE_KEY, rsaRpcType)
FilterBytes(rsaRpcType) == 1 + StrLen(RSA_RPC_TYPE_KEY) + 1 + StrLen(rsaRpcType) + 1

----------------------------------------------------------------------------
(* Construction *)

\* What a create call leaves behind.  obj, desc, icCopy: "none" (never
\* allocated), "live", "freed".  mtx: "none", "init", "destroyed".
\* tracker: TRUE when a tracker is registered with obj as callback handle.
CreateRes(status, out, obj, desc, icCopy, mtx, tracker) ==
    [status |-> status, out |-> out, obj |-> obj, desc |-> desc,
     icCopy |-> icCopy, mtx |-> mtx, tracker |-> tracker]

NoRes == CreateRes("none", "unwritten", "none", "none", "none", "none", FALSE)

ImportArgsBad(in) ==
    \/ in.contextNull
    \/ in.logHelperNull
    \/ in.endpointInvalid
    \/ in.reqSenderSvcId < 0
    \/ in.importOutNull

\* imported_configs_err: the missing property leaves status as initialised
ImportStatusNoConfigs == CELIX_SUCCESS
\* rpc_type_err: no token with the prefix leaves status as initialised
ImportStatusNoRpcType == CELIX_SUCCESS

\* importRegistration_create, as a function of its arguments
ImportCreateResult(in) ==
    IF ImportArgsBad(in)
    THEN CreateRes(CELIX_ILLEGAL_ARGUMENT, "unwritten", "none", "none", "none", "none", FALSE)
    ELSE IF ~in.hasConfigs
    THEN CreateRes(ImportStatusNoConfigs, "unwritten", "freed", "freed", "none", "none", FALSE)
    ELSE IF RsaRpcType(in.configs) = NoRpcType
    THEN CreateRes(ImportStatusNoRpcType, "unwritten", "freed", "freed", "freed", "none", FALSE)
    ELSE IF FilterBytes(RsaRpcType(in.configs)) >= FilterSize
    THEN CreateRes(CELIX_ILLEGAL_ARGUMENT, "unwritten", "freed", "freed", "freed", "none", FALSE)
    ELSE IF in.trkId < 0
    THEN CreateRes(CELIX_SERVICE_EXCEPTION, "unwritten", "freed", "freed", "freed", "none", FALSE)
    ELSE CreateRes(CELIX_SUCCESS, "obj", "live", "live", "freed", "none", TRUE)

\* rsaJsonRpcEndpoint_create, as a function of its arguments
EndpointCreateResult(in) ==
    IF in.mutexStatus # CELIX_SUCCESS
    THEN CreateRes(in.mutexStatus, "unwritten", "freed", "freed", "none", "none", FALSE)
    ELSE IF in.trkId < 0
    THEN CreateRes(CELIX_ILLEGAL_STATE, "unwritten", "freed", "freed", "none", "destroyed", FALSE)
    ELSE CreateRes(CELIX_SUCCESS, "obj", "live", "live", "none", "init", TRUE)

\* hasConfigs: the endpoint's properties hold service.imported.configs, with
\* the value configs.
ImportCreateInputs ==
    { [fn |-> "import", contextNull |-> c, logHelperNull |-> l, endpointInvalid |-> e,
       reqSenderSvcId |-> r, importOutNull |-> o,
       hasConfigs |-> h, configs |-> IF h THEN <<"r", ".", "x">> ELSE <<>>, trkId |-> 0] :
        c \in BOOLEAN, l \in BOOLEAN, e \in BOOLEAN, r \in {-1, 0}, o \in BOOLEAN,
        h \in BOOLEAN }
    \cup
    { [fn |-> "import", contextNull |-> FALSE, logHelperNull |-> FALSE,
       endpointInvalid |-> FALSE, reqSenderSvcId |-> 0, importOutNull |-> FALSE,
       hasConfigs |-> h, configs |-> s, trkId |-> t] :
        h \in BOOLEAN, s \in ConfigStrings, t \in {-1, 0} }

EndpointCreateInputs ==
    { [fn |-> "endpoint", mutexStatus |-> m, trkId |-> t] :
        m \in {CELIX_SUCCESS, CELIX_ENOMEM}, t \in {-1, 0} }

importRegistration_create ==
    /\ scenario = "create"
    /\ crPc = "start"
    /\ crIn.fn = "import"
    /\ crRes' = ImportCreateResult(crIn)
    /\ crPc' = "done"
    /\ UNCHANGED <<shmVars, scenario, crIn, importVars, exportVars>>

rsaJsonRpcEndpoint_create ==
    /\ scenario = "create"
    /\ crPc = "start"
    /\ crIn.fn = "endpoint"
    /\ crRes' = EndpointCreateResult(crIn)
    /\ crPc' = "done"
    /\ UNCHANGED <<shmVars, scenario, crIn, importVars, exportVars>>

----------------------------------------------------------------------------
(* Import registration: tracker callbacks and destroy *)

\* rpc factory services that match the tracker filter
Codecs == {"facA", "facB"}

ProxyIds == 0..(MaxProxies - 1)

Idle == [cb |-> "idle", svc |-> NULL]

\* struct import_registration has no mutex member: no thread ever owns a lock
\* of the registration
ImportLockOwner == "none"

\* the codec calls made by the latest callback
NoCalls == [cb |-> "none", svc |-> NULL, calls |-> <<>>]

\* the next unused proxy service id, or -1 when the ids are used up
NextProxyId ==
    IF \E i \in ProxyIds : proxies[i].state = "unused"
    THEN CHOOSE i \in ProxyIds :
            /\ proxies[i].state = "unused"
            /\ \A j \in ProxyIds : j < i => proxies[j].state # "unused"
    ELSE -1

\* Outcomes of rpcFac->createProxy(...): a failure status with the out
\* parameter untouched, or success with a new service id (>= 0).
CreateProxyOutcomes ==
    {[ok |-> FALSE, id |-> -1]}
    \cup (IF NextProxyId >= 0 THEN {[ok |-> TRUE, id |-> NextProxyId]} ELSE {})

\* rpcFac->destroyProxy(handle, id), on the codec's side
DestroyProxy(id) ==
    [proxies EXCEPT ![id].state =
        IF proxies[id].state = "live" THEN "destroyed" ELSE "destroyedTwice"]

\* The framework registers / unregisters an rpc factory service.
RegisterCodec(c) ==
    /\ scenario = "import"
    /\ c \notin codecs
    /\ c \notin impTrk.tracked
    /\ codecs' = codecs \cup {c}
    /\ UNCHANGED <<shmVars, scenario, createVars, exportVars,
                   import, rpcFac, proxySvcId, impTrk, proxies, proxyLog, impEvt, impUaf>>

UnregisterCodec(c) ==
    /\ scenario = "import"
    /\ c \in codecs
    /\ codecs' = codecs \ {c}
    /\ UNCHANGED <<shmVars, scenario, createVars, exportVars,
                   import, rpcFac, proxySvcId, impTrk, proxies, proxyLog, impEvt, impUaf>>

\* The event thread takes up the add callback for a newly matching codec.
ImportTrackerAdd(c) ==
    /\ scenario = "import"
    /\ impEvt.cb = "idle"
    /\ impTrk.state = "open"
    /\ c \in codecs \ impTrk.tracked
    /\ impTrk' = [impTrk EXCEPT !.tracked = @ \cup {c}]
    /\ impEvt' = [cb |-> "add", svc |-> c]
    /\ UNCHANGED <<shmVars, scenario, createVars, exportVars,
                   import, rpcFac, proxySvcId, codecs, proxies, proxyLog, impUaf>>

\* The event thread takes up the remove callback for a tracked codec that
\* was unregistered, or for every tracked codec once the tracker is stopping.
ImportTrackerRemove(c) ==
    /\ scenario = "import"
    /\ impEvt.cb = "idle"
    /\ c \in impTrk.tracked
    /\ c \notin codecs \/ impTrk.state = "stopping"
    /\ impEvt' = [cb |-> "remove", svc |-> c]
    /\ UNCHANGED <<shmVars, scenario, createVars, exportVars,
                   import, rpcFac, proxySvcId, impTrk, codecs, proxies, proxyLog, impUaf>>

\* A callback that runs on a freed registration: undefined, recorded.
ImportCallbackOnFreed ==
    /\ impUaf' = TRUE
    /\ impEvt' = Idle
    /\ impTrk' = [impTrk EXCEPT !.tracked =
                    IF impEvt.cb = "remove" THEN @ \ {impEvt.svc} ELSE @]
    /\ UNCHANGED <<shmVars, scenario, createVars, exportVars,
                   import, rpcFac, proxySvcId, codecs, proxies, proxyLog>>

\* importRegistration_addRpcFac; firstWins FALSE leaves out the check of
\* line 142, storeId FALSE the assignment of line 155
AddRpcFacBody(firstWins, storeId) ==
    /\ scenario = "import"
    /\ impEvt.cb = "add"
    /\ IF import.obj # "live" THEN ImportCallbackOnFreed
       ELSE
        /\ impEvt' = Idle
        /\ IF firstWins /\ rpcFac # NULL
           THEN /\ proxyLog' = [cb |-> "add", svc |-> impEvt.svc, calls |-> <<>>]
                /\ UNCHANGED <<rpcFac, proxySvcId, proxies>>
           ELSE \E out \in CreateProxyOutcomes :
                /\ proxyLog' = [cb |-> "add", svc |-> impEvt.svc, calls |->
                      <<[op |-> "createProxy", fac |-> impEvt.svc, ok |-> out.ok, id |-> out.id]>>]
                /\ IF out.ok
                   THEN /\ proxies' = [proxies EXCEPT ![out.id] =
                                          [state |-> "live", fac |-> impEvt.svc]]
                        /\ proxySvcId' = IF storeId THEN out.id ELSE proxySvcId
                        /\ rpcFac' = impEvt.svc
                   ELSE UNCHANGED <<rpcFac, proxySvcId, proxies>>
        /\ UNCHANGED <<shmVars, scenario, createVars, exportVars, import, impTrk, codecs, impUaf>>

addRpcFac_NoFirstWins == AddRpcFacBody(FALSE, TRUE)

addRpcFac_DropsProxyId == AddRpcFacBody(TRUE, FALSE)

importRegistration_addRpcFac == AddRpcFacBody(TRUE, TRUE)

\* importRegistration_removeRpcFac; clearBinding FALSE leaves the binding
\* set, failOver TRUE binds another tracked codec in place of the removed
\* one, checkActive FALSE leaves out the check of line 166
RemoveRpcFacBody(clearBinding, failOver, checkActive) ==
    /\ scenario = "import"
    /\ impEvt.cb = "remove"
    /\ IF import.obj # "live" THEN ImportCallbackOnFreed
       ELSE
        /\ impEvt' = Idle
        /\ impTrk' = [impTrk EXCEPT !.tracked = @ \ {impEvt.svc}]
        /\ IF checkActive /\ rpcFac # impEvt.svc
           THEN /\ proxyLog' = [cb |-> "remove", svc |-> impEvt.svc, calls |-> <<>>]
                /\ UNCHANGED <<rpcFac, proxySvcId, proxies>>
           ELSE IF impEvt.svc # NULL /\ proxySvcId >= 0
           THEN /\ proxyLog' = [cb |-> "remove", svc |-> impEvt.svc, calls |->
                      <<[op |-> "destroyProxy", fac |-> impEvt.svc, ok |-> TRUE, id |-> proxySvcId]>>]
                /\ proxies' = DestroyProxy(proxySvcId)
                /\ rpcFac' = IF ~clearBinding THEN rpcFac
                             ELSE IF failOver /\ impTrk.tracked \ {impEvt.svc} # {}
                             THEN CHOOSE b \in impTrk.tracked \ {impEvt.svc} : TRUE
                             ELSE NULL
                /\ proxySvcId' = IF clearBinding THEN -1 ELSE proxySvcId
           ELSE /\ proxyLog' = [cb |-> "remove", svc |-> impEvt.svc, calls |-> <<>>]
                /\ UNCHANGED <<rpcFac, proxySvcId, proxies>>
        /\ UNCHANGED <<shmVars, scenario, createVars, exportVars, import, codecs, impUaf>>

removeRpcFac_KeepsBinding == RemoveRpcFacBody(FALSE, FALSE, TRUE)

removeRpcFac_FailsOver == RemoveRpcFacBody(TRUE, TRUE, TRUE)

removeRpcFac_AnyCodec == RemoveRpcFacBody(TRUE, FALSE, FALSE)

importRegistration_removeRpcFac == RemoveRpcFacBody(TRUE, FALSE, TRUE)

\* importRegistration_destroy; freeNow frees the registration in the caller
ImportDestroyBody(freeNow) ==
    /\ scenario = "import"
    /\ import.obj = "live"
    /\ ~import.destroyCalled
    /\ impTrk.state = "open"
    /\ impTrk' = [impTrk EXCEPT !.state = "stopping"]
    /\ import' = [obj |-> IF freeNow THEN "freed" ELSE "live",
                  desc |-> IF freeNow THEN "freed" ELSE "live",
                  destroyCalled |-> TRUE,
                  raced |-> impEvt.cb # "idle"]
    /\ UNCHANGED <<shmVars, scenario, createVars, exportVars,
                   rpcFac, proxySvcId, codecs, proxies, proxyLog, impEvt, impUaf>>

importDestroy_FreesNow == ImportDestroyBody(TRUE)

importRegistration_destroy == ImportDestroyBody(FALSE)

\* importRegistration_stopRpcSvcTrkDone, run by the event thread when the
\* stopping tracker has delivered its last remove callback
importRegistration_stopRpcSvcTrkDone ==
    /\ scenario = "import"
    /\ impEvt.cb = "idle"
    /\ impTrk.state = "stopping"
    /\ impTrk.tracked = {}
    /\ impTrk' = [impTrk EXCEPT !.state = "stopped"]
    /\ import' = [import EXCEPT !.obj = "freed", !.desc = "freed"]
    /\ UNCHANGED <<shmVars, scenario, createVars, exportVars,
                   rpcFac, proxySvcId, codecs, proxies, proxyLog, impEvt, impUaf>>

----------------------------------------------------------------------------
(* Export endpoint: tracker callbacks, handleRequest, destroy *)

\* the exported service: the tracker filter (line 80) names one service id
Services == {"svc"}

\* threads calling handleRequest
Reqs == {"r1", "r2"}

NoThread == "none"
EvtThread == "evt"

EpIdle == [cb |-> "idle", pc |-> "idle", svc |-> NULL]

\* The arguments of one handleRequest call.  nullArg: which of handle,
\* metadata, request, responseOut is NULL ("none": none of them); iov: the
\* request buffer ("null": iov_base NULL, "empty": iov_len 0, "text"); json:
\* its content ("garbage": not JSON, "nomethod": JSON without "m", "call").
RequestInputs ==
    { [nullArg |-> n, iov |-> "text", json |-> "call"] :
        n \in {"handle", "metadata", "request", "responseOut"} }
    \cup { [nullArg |-> "none", iov |-> i, json |-> "call"] : i \in {"null", "empty"} }
    \cup { [nullArg |-> "none", iov |-> "text", json |-> j] :
        j \in {"garbage", "nomethod", "call"} }

NoInput == [nullArg |-> "none", iov |-> "none", json |-> "none"]

\* a request thread outside handleRequest (callDesc 0: none; callRc -1: not called)
ReqIdle ==
    [pc |-> "idle", in |-> NoInput, status |-> CELIX_SUCCESS, szResponse |-> NULL,
     out |-> "unwritten", cont |-> "unset", hooks |-> <<>>, seen |-> "unread",
     callSvc |-> NULL, callDesc |-> 0, callRc |-> -1, logged |-> <<>>]

\* Outcomes of jsonRpc_call
JsonRpcCallOutcomes == {[rc |-> 0, resp |-> "reply"], [rc |-> 1, resp |-> NULL]}

\* dynInterface_destroy(intf); descriptor 0 is the NULL pointer
DynInterfaceDestroy(intf) ==
    IF intf = 0 THEN descs
    ELSE IF intf \in descs.released
         THEN [descs EXCEPT !.releasedTwice = TRUE]
         ELSE [descs EXCEPT !.released = @ \cup {intf}]

\* The framework registers / unregisters the exported service.
RegisterService(s) ==
    /\ scenario = "export"
    /\ epTrk.registered = NULL
    /\ epTrk.tracked = NULL
    /\ epTrk' = [epTrk EXCEPT !.registered = s]
    /\ UNCHANGED <<shmVars, scenario, createVars, importVars,
                   endpoint, mutex, service, intfType, descs, epEvt, epUaf, req>>

UnregisterService ==
    /\ scenario = "export"
    /\ epTrk.registered # NULL
    /\ epTrk' = [epTrk EXCEPT !.registered = NULL]
    /\ UNCHANGED <<shmVars, scenario, createVars, importVars,
                   endpoint, mutex, service, intfType, descs, epEvt, epUaf, req>>

\* The event thread takes up the add callback for the matching service.
EndpointTrackerAdd ==
    /\ scenario = "export"
    /\ epEvt.cb = "idle"
    /\ epTrk.state = "open"
    /\ epTrk.registered # NULL
    /\ epTrk.tracked = NULL
    /\ epTrk' = [epTrk EXCEPT !.tracked = epTrk.registered]
    /\ epEvt' = [cb |-> "add", pc |-> "lock", svc |-> epTrk.registered]
    /\ UNCHANGED <<shmVars, scenario, createVars, importVars,
                   endpoint, mutex, service, intfType, descs, epUaf, req>>

\* The event thread takes up the remove callback for the tracked service,
\* after it was unregistered or once the tracker is stopping.
EndpointTrackerRemove ==
    /\ scenario = "export"
    /\ epEvt.cb = "idle"
    /\ epTrk.tracked # NULL
    /\ epTrk.registered # epTrk.tracked \/ epTrk.state = "stopping"
    /\ epEvt' = [cb |-> "remove", pc |-> "lock", svc |-> epTrk.tracked]
    /\ UNCHANGED <<shmVars, scenario, createVars, importVars,
                   endpoint, mutex, service, intfType, descs, epTrk, epUaf, req>>

\* A callback step on a freed endpoint: undefined, recorded; the callback ends.
EndpointCallbackOnFreed ==
    /\ epUaf' = epUaf \cup {EvtThread}
    /\ epEvt' = EpIdle
    /\ epTrk' = [epTrk EXCEPT !.tracked = IF epEvt.cb = "remove" THEN NULL ELSE @]
    /\ UNCHANGED <<shmVars, scenario, createVars, importVars,
                   endpoint, mutex, service, intfType, descs, req>>

\* celixThreadMutex_lock(&endpoint->mutex) in a callback; takeLock FALSE
\* goes on without the lock
CallbackLockBody(cb, takeLock) ==
    /\ scenario = "export"
    /\ epEvt.cb = cb
    /\ epEvt.pc = "lock"
    /\ IF endpoint.obj # "live" THEN EndpointCallbackOnFreed
       ELSE
        /\ takeLock => mutex = NoThread
        /\ mutex' = IF takeLock THEN EvtThread ELSE mutex
        /\ epEvt' = [epEvt EXCEPT !.pc = "locked"]
        /\ UNCHANGED <<shmVars, scenario, createVars, importVars,
                       endpoint, service, intfType, descs, epTrk, epUaf, req>>

\* celixThreadMutex_unlock(&endpoint->mutex) at the end of a callback
CallbackUnlockBody(cb) ==
    /\ scenario = "export"
    /\ epEvt.cb = cb
    /\ epEvt.pc = "unlock"
    /\ IF endpoint.obj # "live" THEN EndpointCallbackOnFreed
       ELSE
        /\ mutex' = IF mutex = EvtThread THEN NoThread ELSE mutex
        /\ epEvt' = EpIdle
        /\ epTrk' = [epTrk EXCEPT !.tracked = IF cb = "remove" THEN NULL ELSE @]
        /\ UNCHANGED <<shmVars, scenario, createVars, importVars,
                       endpoint, service, intfType, descs, epUaf, req>>

addSvc_NoLock == CallbackLockBody("add", FALSE)

\* rsaJsonRpcEndpoint_addSvcWithOwner, line 131
AddSvcLock == CallbackLockBody("add", TRUE)

\* lines 133-142 without the goto of line 137: the service is published
\* after a failed parse as well
addSvcParse_PublishesOnFailure ==
    /\ scenario = "export"
    /\ epEvt.cb = "add"
    /\ epEvt.pc = "locked"
    /\ IF endpoint.obj # "live" THEN EndpointCallbackOnFreed
       ELSE
        /\ \/ /\ descs.parsed < MaxDescs
              /\ descs' = [descs EXCEPT !.parsed = @ + 1]
              /\ intfType' = descs.parsed + 1
           \/ /\ intfType' \in {intfType, 0}
              /\ UNCHANGED descs
        /\ epEvt' = [epEvt EXCEPT !.pc = "publish"]
        /\ UNCHANGED <<shmVars, scenario, createVars, importVars,
                       endpoint, mutex, service, epTrk, epUaf, req>>

\* lines 133-138: dfi_findAndParseInterfaceDescriptor(..., &endpoint->intfType).
\* Success stores a new descriptor; failure leaves intfType as it was or NULL.
AddSvcParse ==
    /\ scenario = "export"
    /\ epEvt.cb = "add"
    /\ epEvt.pc = "locked"
    /\ IF endpoint.obj # "live" THEN EndpointCallbackOnFreed
       ELSE
        /\ \/ /\ descs.parsed < MaxDescs
              /\ descs' = [descs EXCEPT !.parsed = @ + 1]
              /\ intfType' = descs.parsed + 1
              /\ epEvt' = [epEvt EXCEPT !.pc = "publish"]
           \/ /\ intfType' \in {intfType, 0}
              /\ epEvt' = [epEvt EXCEPT !.pc = "unlock"]
              /\ UNCHANGED descs
        /\ UNCHANGED <<shmVars, scenario, createVars, importVars,
                       endpoint, mutex, service, epTrk, epUaf, req>>

\* line 142: endpoint->service = service
AddSvcPublish ==
    /\ scenario = "export"
    /\ epEvt.cb = "add"
    /\ epEvt.pc = "publish"
    /\ IF endpoint.obj # "live" THEN EndpointCallbackOnFreed
       ELSE
        /\ service' = epEvt.svc
        /\ epEvt' = [epEvt EXCEPT !.pc = "unlock"]
        /\ UNCHANGED <<shmVars, scenario, createVars, importVars,
                       endpoint, mutex, intfType, descs, epTrk, epUaf, req>>

\* lines 144 / 149
AddSvcUnlock == CallbackUnlockBody("add")

removeSvc_NoLock == CallbackLockBody("remove", FALSE)

\* rsaJsonRpcEndpoint_removeSvcWithOwner, line 157
RemoveSvcLock == CallbackLockBody("remove", TRUE)

\* lines 158-161; clearService FALSE leaves out the assignment of line 159
RemoveSvcClearBody(clearService) ==
    /\ scenario = "export"
    /\ epEvt.cb = "remove"
    /\ epEvt.pc = "locked"
    /\ IF endpoint.obj # "live" THEN EndpointCallbackOnFreed
       ELSE
        /\ IF service = epEvt.svc
           THEN /\ service' = IF clearService THEN NULL ELSE service
                /\ descs' = DynInterfaceDestroy(intfType)
           ELSE UNCHANGED <<service, descs>>
        /\ epEvt' = [epEvt EXCEPT !.pc = "unlock"]
        /\ UNCHANGED <<shmVars, scenario, createVars, importVars,
                       endpoint, mutex, intfType, epTrk, epUaf, req>>

removeSvc_KeepsService == RemoveSvcClearBody(FALSE)

RemoveSvcClear == RemoveSvcClearBody(TRUE)

\* line 162
RemoveSvcUnlock == CallbackUnlockBody("remove")

\* rsaJsonRpcEndpoint_destroy; freeNow frees the endpoint in the caller
EndpointDestroyBody(freeNow) ==
    /\ scenario = "export"
    /\ endpoint.obj = "live"
    /\ ~endpoint.destroyCalled
    /\ epTrk.state = "open"
    /\ epTrk' = [epTrk EXCEPT !.state = "stopping"]
    /\ endpoint' = [endpoint EXCEPT
                      !.obj = IF freeNow THEN "freed" ELSE @,
                      !.desc = IF freeNow THEN "freed" ELSE @,
                      !.mtx = IF freeNow THEN "destroyed" ELSE @,
                      !.destroyCalled = TRUE,
                      !.raced = epEvt.cb # "idle"]
    /\ UNCHANGED <<shmVars, scenario, createVars, importVars,
                   mutex, service, intfType, descs, epEvt, epUaf, req>>

endpointDestroy_FreesNow == EndpointDestroyBody(TRUE)

rsaJsonRpcEndpoint_destroy == EndpointDestroyBody(FALSE)

\* rsaJsonRpcEndpoint_destroyCallback, run by the event thread when the
\* stopping tracker has delivered its last remove callback
rsaJsonRpcEndpoint_destroyCallback ==
    /\ scenario = "export"
    /\ epEvt.cb = "idle"
    /\ epTrk.state = "stopping"
    /\ epTrk.tracked = NULL
    /\ epTrk' = [epTrk EXCEPT !.state = "stopped"]
    /\ endpoint' = [endpoint EXCEPT !.obj = "freed", !.desc = "freed", !.mtx = "destroyed"]
    /\ UNCHANGED <<shmVars, scenario, createVars, importVars,
                   mutex, service, intfType, descs, epEvt, epUaf, req>>

----------------------------------------------------------------------------
(* rsaJsonRpcEndpoint_handleRequest, step by step on a request thread *)

InHandleRequest(t) ==
    req[t].pc \in {"pre", "lock", "locked", "calling", "unlock", "post", "respond"}

\* the record fprintf appends to the call log (lines 215-216)
CallLogRecord(r) ==
    [service |-> "endpointDesc.service", serviceId |-> "endpointDesc.serviceId",
     request |-> r.in.json, response |-> r.szResponse, status |-> r.status]

\* lines 166-190 without the check of json_unpack's result (line 186)
entry_NoMethodCheck(t, in) ==
    /\ scenario = "export"
    /\ req[t].pc = "idle"
    /\ endpoint.obj = "live"
    /\ req' = [req EXCEPT ![t] =
         IF in.nullArg # "none" \/ in.iov \in {"null", "empty"}
         THEN [@ EXCEPT !.pc = "done", !.in = in, !.status = CELIX_ILLEGAL_ARGUMENT]
         ELSE IF in.json = "garbage"
         THEN [@ EXCEPT !.pc = "done", !.in = in, !.out = "empty",
                        !.status = CELIX_ILLEGAL_ARGUMENT]
         ELSE [@ EXCEPT !.pc = "pre", !.in = in, !.out = "empty"]]
    /\ UNCHANGED <<shmVars, scenario, createVars, importVars,
                   endpoint, mutex, service, intfType, descs, epTrk, epEvt, epUaf>>

\* lines 166-190: argument check, responseOut cleared, json_loads, json_unpack
HandleRequestEntry(t, in) ==
    /\ scenario = "export"
    /\ req[t].pc = "idle"
    /\ endpoint.obj = "live"
    /\ req' = [req EXCEPT ![t] =
         IF in.nullArg # "none" \/ in.iov \in {"null", "empty"}
         THEN [@ EXCEPT !.pc = "done", !.in = in, !.status = CELIX_ILLEGAL_ARGUMENT]
         ELSE IF in.json \in {"garbage", "nomethod"}
         THEN [@ EXCEPT !.pc = "done", !.in = in, !.out = "empty",
                        !.status = CELIX_ILLEGAL_ARGUMENT]
         ELSE [@ EXCEPT !.pc = "pre", !.in = in, !.out = "empty"]]
    /\ UNCHANGED <<shmVars, scenario, createVars, importVars,
                   endpoint, mutex, service, intfType, descs, epTrk, epEvt, epUaf>>

\* lines 193-195 with the result of the pre-call hook not looked at
pre_IgnoresVeto(t) ==
    /\ scenario = "export"
    /\ req[t].pc = "pre"
    /\ endpoint.obj = "live"
    /\ \E cont \in {"yes", "no"} :
        req' = [req EXCEPT ![t].cont = cont,
                           ![t].hooks = Append(@, "pre"),
                           ![t].pc = "lock"]
    /\ UNCHANGED <<shmVars, scenario, createVars, importVars,
                   endpoint, mutex, service, intfType, descs, epTrk, epEvt, epUaf>>

\* lines 193-195: remoteInterceptorHandler_invokePreExportCall
HandleRequestPre(t) ==
    /\ scenario = "export"
    /\ req[t].pc = "pre"
    /\ endpoint.obj = "live"
    /\ \E cont \in {"yes", "no"} :
        req' = [req EXCEPT ![t].cont = cont,
                           ![t].hooks = Append(@, "pre"),
                           ![t].pc = IF cont = "yes" THEN "lock" ELSE "respond"]
    /\ UNCHANGED <<shmVars, scenario, createVars, importVars,
                   endpoint, mutex, service, intfType, descs, epTrk, epEvt, epUaf>>

\* line 196
HandleRequestLock(t) ==
    /\ scenario = "export"
    /\ req[t].pc = "lock"
    /\ endpoint.obj = "live"
    /\ mutex = NoThread
    /\ mutex' = t
    /\ req' = [req EXCEPT ![t].pc = "locked"]
    /\ UNCHANGED <<shmVars, scenario, createVars, importVars,
                   endpoint, service, intfType, descs, epTrk, epEvt, epUaf>>

\* lines 197-203: the check of endpoint->service; jsonRpc_call is entered with
\* the descriptor and the service read here.  noServiceStatus is the status of
\* the else branch.
DispatchBody(t, noServiceStatus) ==
    /\ scenario = "export"
    /\ req[t].pc = "locked"
    /\ endpoint.obj = "live"
    /\ req' = [req EXCEPT ![t] =
         IF service # NULL
         THEN [@ EXCEPT !.pc = "calling", !.seen = service,
                        !.callSvc = service, !.callDesc = intfType]
         ELSE [@ EXCEPT !.pc = "unlock", !.seen = service, !.status = noServiceStatus]]
    /\ UNCHANGED <<shmVars, scenario, createVars, importVars,
                   endpoint, mutex, service, intfType, descs, epTrk, epEvt, epUaf>>

dispatch_NoServiceIsSuccess(t) == DispatchBody(t, CELIX_SUCCESS)

HandleRequestDispatch(t) == DispatchBody(t, CELIX_ILLEGAL_STATE)

\* lines 198-204 with a failed call leaving before the unlock of line 204
callReturn_KeepsLockOnFailure(t) ==
    /\ scenario = "export"
    /\ req[t].pc = "calling"
    /\ endpoint.obj = "live"
    /\ \E o \in JsonRpcCallOutcomes :
        req' = [req EXCEPT ![t].pc = IF o.rc # 0 THEN "post" ELSE "unlock",
                           ![t].callDesc = 0,
                           ![t].callRc = o.rc,
                           ![t].szResponse = o.resp,
                           ![t].status = IF o.rc # 0 THEN CELIX_SERVICE_EXCEPTION
                                                     ELSE CELIX_SUCCESS]
    /\ UNCHANGED <<shmVars, scenario, createVars, importVars,
                   endpoint, mutex, service, intfType, descs, epTrk, epEvt, epUaf>>

\* lines 198-199: jsonRpc_call returns
HandleRequestCallReturn(t) ==
    /\ scenario = "export"
    /\ req[t].pc = "calling"
    /\ endpoint.obj = "live"
    /\ \E o \in JsonRpcCallOutcomes :
        req' = [req EXCEPT ![t].pc = "unlock",
                           ![t].callDesc = 0,
                           ![t].callRc = o.rc,
                           ![t].szResponse = o.resp,
                           ![t].status = IF o.rc # 0 THEN CELIX_SERVICE_EXCEPTION
                                                     ELSE CELIX_SUCCESS]
    /\ UNCHANGED <<shmVars, scenario, createVars, importVars,
                   endpoint, mutex, service, intfType, descs, epTrk, epEvt, epUaf>>

\* line 204; postAlways FALSE goes past the post-call hook after a failure
UnlockBody(t, postAlways) ==
    /\ scenario = "export"
    /\ req[t].pc = "unlock"
    /\ endpoint.obj = "live"
    /\ mutex' = NoThread
    /\ req' = [req EXCEPT ![t].pc =
         IF postAlways \/ req[t].status = CELIX_SUCCESS THEN "post" ELSE "respond"]
    /\ UNCHANGED <<shmVars, scenario, createVars, importVars,
                   endpoint, service, intfType, descs, epTrk, epEvt, epUaf>>

unlock_NoPostOnFailure(t) == UnlockBody(t, FALSE)

HandleRequestUnlock(t) == UnlockBody(t, TRUE)

\* lines 206-207: remoteInterceptorHandler_invokePostExportCall
HandleRequestPost(t) ==
    /\ scenario = "export"
    /\ req[t].pc = "post"
    /\ endpoint.obj = "live"
    /\ req' = [req EXCEPT ![t].hooks = Append(@, "post"), ![t].pc = "respond"]
    /\ UNCHANGED <<shmVars, scenario, createVars, importVars,
                   endpoint, mutex, service, intfType, descs, epTrk, epEvt, epUaf>>

\* lines 209-222: responseOut, the call log, return; logIf says which calls
\* are logged when a sink is set
RespondBody(t, logIf) ==
    /\ scenario = "export"
    /\ req[t].pc = "respond"
    /\ endpoint.obj = "live"
    /\ req' = [req EXCEPT
         ![t].pc = "done",
         ![t].out = IF req[t].szResponse # NULL THEN req[t].szResponse ELSE @,
         ![t].logged = IF endpoint.callsLogFile /\ logIf
                       THEN Append(@, CallLogRecord(req[t])) ELSE @]
    /\ UNCHANGED <<shmVars, scenario, createVars, importVars,
                   endpoint, mutex, service, intfType, descs, epTrk, epEvt, epUaf>>

respond_LogsOnlySuccess(t) == RespondBody(t, req[t].status = CELIX_SUCCESS)

HandleRequestRespond(t) == RespondBody(t, TRUE)

\* the caller takes the result; the thread may call again
HandleRequestReturn(t) ==
    /\ scenario = "export"
    /\ req[t].pc = "done"
    /\ req' = [req EXCEPT ![t] = ReqIdle]
    /\ UNCHANGED <<shmVars, scenario, createVars, importVars,
                   endpoint, mutex, service, intfType, descs, epTrk, epEvt, epUaf>>

\* A call still in flight when the stop-completion callback has freed the
\* endpoint: its next step reads freed memory; what follows is undefined.
HandleRequestOnFreed(t) ==
    /\ scenario = "export"
    /\ InHandleRequest(t)
    /\ endpoint.obj = "freed"
    /\ req' = [req EXCEPT ![t] = [ReqIdle EXCEPT !.pc = "undefined"]]
    /\ epUaf' = epUaf \cup {t}
    /\ UNCHANGED <<shmVars, scenario, createVars, importVars,
                   endpoint, mutex, service, intfType, descs, epTrk, epEvt>>

----------------------------------------------------------------------------
(* Shared-memory transport: memory pool, message protocol, admission        *)
(* control and circuit breaker                                              *)

\* MSG_STATE (rsa_shm_msg.h)
REQUESTING == "REQUESTING"
REPLYING == "REPLYING"
REPLIED == "REPLIED"
ABEND == "ABEND"
\* msgState of a control block no caller has initialised
UNSET == "UNSET"

\* calling threads and serving threads, in the order in which an idle one
\* is taken for the next call or request
CallerOrder == <<"c1", "c2">>
CalleeOrder == <<"s1", "s2">>
Callers == {CallerOrder[i] : i \in 1..Len(CallerOrder)}
Callees == {CalleeOrder[i] : i \in 1..Len(CalleeOrder)}

\* t is the first thread of the order that is idle
FirstIdle(order, state, t) ==
    \E i \in 1..Len(order) :
        /\ order[i] = t
        /\ state[t].pc = "idle"
        /\ \A j \in 1..(i - 1) : state[order[j]].pc # "idle"

Dests == {"d1", "d2"}
Slots == 1..MaxSlots
\* a request handed over: the slot and the version it was allocated with
Messages == [slot : Slots, ver : 1..MaxVersion]

\* A slot outside any call: its version, rsa_shm_msg_control_t (msgState,
\* lock, actualReplyedSize) and the buffer (request, reply payload).  Versions
\* are only compared for equality: a slot that no handle and no message
\* refers to starts again from version 0.
FreeSlot(ver) ==
    [alloc |-> FALSE, ver |-> ver, lock |-> NoThread, msgState |-> UNSET,
     request |-> "none", payload |-> <<>>, actualReplyedSize |-> 0]

CallerIdle ==
    [pc |-> "idle", dest |-> "none", slot |-> 0, observed |-> "none", reply |-> <<>>]

CalleeIdle == [pc |-> "idle", slot |-> 0, ver |-> 0, reply |-> <<>>]

DestClosed == [inflight |-> 0, failures |-> 0, cooldown |-> 0, probe |-> "none"]

NoResult == [dest |-> "none", status |-> "none"]

\* the reply the service encodes for the request r
ReplyFor(r) == <<"re", r>>

\* what a reader takes from the reply region: actualReplyedSize bytes of it
ReadReply(sl) ==
    [i \in 1..sl.actualReplyedSize |->
        IF i <= Len(sl.payload) THEN sl.payload[i] ELSE "?"]

BreakerIsOpen(d) == shmDest[d].failures >= MaxConsecutiveFailures

FreeSlots == {s \in Slots : ~shmSlot[s].alloc}

\* allocate(requestSize): the lowest free slot
Allocate == CHOOSE s \in FreeSlots : \A t \in FreeSlots : s <= t

\* a message or a serving thread's handle still refers to slot s
Referred(s) ==
    \/ \E m \in shmQueue : m.slot = s
    \/ \E k \in Callees : shmCallee[k].slot = s

\* the version slot s has once freed, and the one its next call gets
FreedVersion(s) == IF Referred(s) THEN shmSlot[s].ver ELSE 0
NextVersion(s) == IF Referred(s) THEN shmSlot[s].ver + 1 ELSE 1

\* A call to destination d, up to its wait: breaker, admission against the
\* limit of concurrent invocations, slot allocation; the request is written
\* into the slot's buffer and, under the slot lock, msgState is set to
\* REQUESTING and the condition signalled; the wait releases the lock.
\* allowProbe says when an open breaker lets a call through, limit is the
\* number of in-flight calls at which a call is turned away.
CallBody(c, d, allowProbe, limit) ==
    /\ scenario = "shm"
    /\ FirstIdle(CallerOrder, shmCaller, c)
    /\ shmDest[d].failures < MaxFailures
    /\ FreeSlots # {} => NextVersion(Allocate) <= MaxVersion
    /\ LET Reject(st) ==
               /\ shmResult' = [dest |-> d, status |-> st]
               /\ UNCHANGED <<shmSlot, shmDest, shmCaller, shmQueue>>
       IN IF BreakerIsOpen(d) /\ ~allowProbe
          THEN Reject("BreakerOpen")
          ELSE IF shmDest[d].inflight >= limit
          THEN Reject("Busy")
          ELSE IF FreeSlots = {}
          THEN Reject("PoolExhausted")
          ELSE /\ shmSlot' = [shmSlot EXCEPT ![Allocate] =
                    [FreeSlot(NextVersion(Allocate)) EXCEPT
                        !.alloc = TRUE, !.request = c, !.msgState = REQUESTING]]
               /\ shmQueue' = shmQueue \cup
                    {[slot |-> Allocate, ver |-> NextVersion(Allocate)]}
               /\ shmDest' = [shmDest EXCEPT
                    ![d].inflight = @ + 1,
                    ![d].probe = IF BreakerIsOpen(d) THEN c ELSE @]
               /\ shmCaller' = [shmCaller EXCEPT ![c] =
                    [CallerIdle EXCEPT !.pc = "wait", !.dest = d, !.slot = Allocate]]
               /\ UNCHANGED shmResult
    /\ UNCHANGED <<scenario, createVars, importVars, exportVars, shmCallee>>

call_EveryCallAfterCooldown(c, d) ==
    CallBody(c, d, shmDest[d].cooldown = 0, MaxConcurrentInvocations)

call_LimitOffByOne(c, d) ==
    CallBody(c, d, shmDest[d].cooldown = 0 /\ shmDest[d].probe = "none",
              MaxConcurrentInvocations + 1)

ShmCall(c, d) ==
    CallBody(c, d, shmDest[d].cooldown = 0 /\ shmDest[d].probe = "none",
              MaxConcurrentInvocations)

\* The wait ends and the caller holds the lock again: on REPLIED it reads the
\* reply, on ABEND it reads nothing, and in any other state the wait has timed
\* out.  Still under the lock the slot goes back to the pool; giveBack
\* FALSE leaves it allocated.
WakeBody(c, giveBack) ==
    /\ scenario = "shm"
    /\ shmCaller[c].pc = "wait"
    /\ LET s == shmCaller[c].slot
           sl == shmSlot[s]
           obs == IF sl.msgState \in {REPLIED, ABEND} THEN sl.msgState ELSE "TIMEOUT"
       IN /\ sl.lock = NoThread
          /\ shmCaller' = [shmCaller EXCEPT ![c] =
               [@ EXCEPT !.pc = "account", !.slot = 0, !.observed = obs,
                         !.reply = IF obs = REPLIED THEN ReadReply(sl) ELSE <<>>]]
          /\ shmSlot' = IF giveBack
                         THEN [shmSlot EXCEPT ![s] = FreeSlot(FreedVersion(s))]
                         ELSE shmSlot
    /\ UNCHANGED <<scenario, createVars, importVars, exportVars,
                   shmCallee, shmDest, shmQueue, shmResult>>

callerWake_KeepsSlot(c) == WakeBody(c, FALSE)

CallerWake(c) == WakeBody(c, TRUE)

\* The call ends: the reply is decoded, the destination's in-flight count,
\* failure counter and breaker are updated and the caller has its result.
\* timeoutCounts says whether a timeout counts as a failure.
AccountBody(c, timeoutCounts) ==
    /\ scenario = "shm"
    /\ shmCaller[c].pc = "account"
    /\ \E st \in (IF shmCaller[c].observed = REPLIED THEN {"Success", "CodecError"}
                  ELSE IF shmCaller[c].observed = ABEND THEN {"Abend"}
                  ELSE {"Timeout"}) :
        LET d == shmCaller[c].dest
            dst == shmDest[d]
            isProbe == dst.probe = c
        IN /\ shmCaller' = [shmCaller EXCEPT ![c] = CallerIdle]
           /\ shmResult' = [dest |-> d, status |-> st]
           /\ shmDest' = [shmDest EXCEPT ![d] =
                IF st = "Success"
                THEN [inflight |-> dst.inflight - 1, failures |-> 0,
                      cooldown |-> 0, probe |-> "none"]
                ELSE IF st # "Timeout" \/ timeoutCounts
                THEN [inflight |-> dst.inflight - 1,
                      failures |-> dst.failures + 1,
                      cooldown |-> IF isProbe \/ dst.failures + 1 = MaxConsecutiveFailures
                                   THEN BreakerCooldown ELSE dst.cooldown,
                      probe |-> IF isProbe THEN "none" ELSE dst.probe]
                ELSE [dst EXCEPT !.inflight = @ - 1,
                                 !.probe = IF isProbe THEN "none" ELSE @]]
    /\ UNCHANGED <<scenario, createVars, importVars, exportVars,
                   shmSlot, shmCallee, shmQueue>>

account_TimeoutNotCounted(c) == AccountBody(c, FALSE)

CallerAccount(c) == AccountBody(c, TRUE)

\* the slot of message m is still the slot of the call that sent m
IsCurrent(m) == shmSlot[m.slot].alloc /\ shmSlot[m.slot].ver = m.ver

\* A serving thread wakes on a request m and takes the lock of its slot; it
\* lets go of a slot it finds freed or given to another call.  Otherwise it
\* sets msgState to REPLYING and releases the lock while the response is
\* computed.
CalleeSetReplying(k) ==
    /\ scenario = "shm"
    /\ FirstIdle(CalleeOrder, shmCallee, k)
    /\ \E m \in shmQueue :
        /\ shmSlot[m.slot].lock = NoThread
        /\ shmQueue' = shmQueue \ {m}
        /\ IF ~IsCurrent(m)
           THEN UNCHANGED <<shmSlot, shmCallee>>
           ELSE /\ shmSlot' = [shmSlot EXCEPT ![m.slot].msgState = REPLYING]
                /\ shmCallee' = [shmCallee EXCEPT ![k] =
                     [CalleeIdle EXCEPT !.pc = "compute", !.slot = m.slot, !.ver = m.ver]]
    /\ UNCHANGED <<scenario, createVars, importVars, exportVars,
                   shmCaller, shmDest, shmResult>>

\* The serving thread answers, after REPLYING or straight on the request m:
\* it takes the lock, lets go of a slot that checkVersion finds freed or
\* given to another call, and otherwise writes the reply into the
\* reply-reserve region, or has no reply to write.  signalFirst sets REPLIED
\* and releases the lock with the payload, before the size is recorded.
LockReplyBody(k, m, checkVersion, signalFirst) ==
    /\ scenario = "shm"
    /\ \/ /\ shmCallee[k].pc = "compute"
          /\ m = [slot |-> shmCallee[k].slot, ver |-> shmCallee[k].ver]
          /\ UNCHANGED shmQueue
       \/ /\ FirstIdle(CalleeOrder, shmCallee, k)
          /\ m \in shmQueue
          /\ shmQueue' = shmQueue \ {m}
    /\ shmSlot[m.slot].lock = NoThread
    /\ IF checkVersion /\ ~IsCurrent(m)
       THEN /\ shmCallee' = [shmCallee EXCEPT ![k] = CalleeIdle]
            /\ UNCHANGED shmSlot
       ELSE LET r == ReplyFor(shmSlot[m.slot].request)
                to(pc) == [CalleeIdle EXCEPT !.pc = pc, !.slot = m.slot, !.ver = m.ver]
            IN \/ /\ shmSlot' = [shmSlot EXCEPT ![m.slot] =
                       IF signalFirst
                       THEN [@ EXCEPT !.payload = r, !.msgState = REPLIED]
                       ELSE [@ EXCEPT !.payload = r, !.lock = k]]
                  /\ shmCallee' = [shmCallee EXCEPT ![k] = [to("replied") EXCEPT !.reply = r]]
               \/ /\ shmSlot' = [shmSlot EXCEPT ![m.slot].lock = k]
                  /\ shmCallee' = [shmCallee EXCEPT ![k] = to("abend")]
    /\ UNCHANGED <<scenario, createVars, importVars, exportVars,
                   shmCaller, shmDest, shmResult>>

calleeLockReply_NoVersionCheck(k, m) == LockReplyBody(k, m, FALSE, FALSE)

calleeLockReply_SignalsFirst(k, m) == LockReplyBody(k, m, TRUE, TRUE)

CalleeLockReply(k, m) == LockReplyBody(k, m, TRUE, FALSE)

\* still under the lock: the size of a reply is recorded in
\* actualReplyedSize, msgState is set to next, the condition is signalled and
\* the lock released
CalleeFinishBody(k, at, next) ==
    /\ scenario = "shm"
    /\ shmCallee[k].pc = at
    /\ shmSlot' = [shmSlot EXCEPT ![shmCallee[k].slot] =
         [@ EXCEPT !.msgState = next,
                   !.actualReplyedSize = Len(shmCallee[k].reply),
                   !.lock = IF @ = k THEN NoThread ELSE @]]
    /\ shmCallee' = [shmCallee EXCEPT ![k] = CalleeIdle]
    /\ UNCHANGED <<scenario, createVars, importVars, exportVars,
                   shmCaller, shmDest, shmQueue, shmResult>>

calleeAbend_SetsRequesting(k) == CalleeFinishBody(k, "abend", REQUESTING)

CalleeSetReplied(k) == CalleeFinishBody(k, "replied", REPLIED)

CalleeSetAbend(k) == CalleeFinishBody(k, "abend", ABEND)

\* a clock tick: every running cooldown window gets one tick shorter
ShmTick ==
    /\ scenario = "shm"
    /\ \E d \in Dests : shmDest[d].cooldown > 0
    /\ shmDest' = [d \in Dests |->
         [shmDest[d] EXCEPT !.cooldown = IF @ > 0 THEN @ - 1 ELSE 0]]
    /\ UNCHANGED <<scenario, createVars, importVars, exportVars,
                   shmSlot, shmCaller, shmCallee, shmQueue, shmResult>>

----------------------------------------------------------------------------
(* Specification *)

\* arguments on which importRegistration_create succeeds
ValidImportInput ==
    [fn |-> "import", contextNull |-> FALSE, logHelperNull |-> FALSE,
     endpointInvalid |-> FALSE, reqSenderSvcId |-> 0, importOutNull |-> FALSE,
     hasConfigs |-> TRUE, configs |-> <<"r", ".", "x">>, trkId |-> 0]

ValidEndpointInput == [fn |-> "endpoint", mutexStatus |-> CELIX_SUCCESS, trkId |-> 0]

NoImport ==
    /\ import = [obj |-> "none", desc |-> "none", destroyCalled |-> FALSE, raced |-> FALSE]
    /\ rpcFac = NULL
    /\ proxySvcId = -1
    /\ impTrk = [state |-> "none", tracked |-> {}]
    /\ codecs = {}
    /\ proxies = [i \in ProxyIds |-> [state |-> "unused", fac |-> NULL]]
    /\ proxyLog = NoCalls
    /\ impEvt = Idle
    /\ impUaf = FALSE

NoEndpoint ==
    /\ endpoint = [obj |-> "none", desc |-> "none", mtx |-> "none", callsLogFile |-> FALSE,
                   destroyCalled |-> FALSE, raced |-> FALSE]
    /\ mutex = NoThread
    /\ service = NULL
    /\ intfType = 0
    /\ descs = [parsed |-> 0, released |-> {}, releasedTwice |-> FALSE]
    /\ epTrk = [state |-> "none", registered |-> NULL, tracked |-> NULL]
    /\ epEvt = EpIdle
    /\ epUaf = {}
    /\ req = [t \in Reqs |-> ReqIdle]

NoShm ==
    /\ shmSlot = [s \in Slots |-> FreeSlot(0)]
    /\ shmCaller = [c \in Callers |-> CallerIdle]
    /\ shmCallee = [k \in Callees |-> CalleeIdle]
    /\ shmDest = [d \in Dests |-> DestClosed]
    /\ shmResult = NoResult
    /\ shmQueue = {}

NoCreate ==
    /\ crIn = [fn |-> "none"]
    /\ crPc = "done"
    /\ crRes = NoRes

InitCreate ==
    /\ NoShm
    /\ scenario = "create"
    /\ crIn \in ImportCreateInputs \cup EndpointCreateInputs
    /\ crPc = "start"
    /\ crRes = NoRes
    /\ NoImport
    /\ NoEndpoint

\* the registration importRegistration_create returns (lines 50-60, 99-110)
InitImport ==
    /\ NoShm
    /\ scenario = "import"
    /\ NoCreate
    /\ NoEndpoint
    /\ import = [obj |-> ImportCreateResult(ValidImportInput).obj,
                 desc |-> ImportCreateResult(ValidImportInput).desc,
                 destroyCalled |-> FALSE, raced |-> FALSE]
    /\ rpcFac = NULL
    /\ proxySvcId = -1
    /\ impTrk = [state |-> "open", tracked |-> {}]
    /\ codecs \in SUBSET Codecs
    /\ proxies = [i \in ProxyIds |-> [state |-> "unused", fac |-> NULL]]
    /\ proxyLog = NoCalls
    /\ impEvt = Idle
    /\ impUaf = FALSE

\* the endpoint rsaJsonRpcEndpoint_create returns (lines 51-72, 87-96)
InitExport ==
    /\ NoShm
    /\ scenario = "export"
    /\ NoCreate
    /\ NoImport
    /\ \E logFile \in BOOLEAN :
        endpoint = [obj |-> EndpointCreateResult(ValidEndpointInput).obj,
                    desc |-> EndpointCreateResult(ValidEndpointInput).desc,
                    mtx |-> EndpointCreateResult(ValidEndpointInput).mtx,
                    callsLogFile |-> logFile,
                    destroyCalled |-> FALSE, raced |-> FALSE]
    /\ mutex = NoThread
    /\ service = NULL
    /\ intfType = 0
    /\ descs = [parsed |-> 0, released |-> {}, releasedTwice |-> FALSE]
    /\ epTrk = [state |-> "open", registered |-> NULL, tracked |-> NULL]
    /\ epEvt = EpIdle
    /\ epUaf = {}
    /\ req = [t \in Reqs |-> ReqIdle]

Init == InitCreate \/ InitImport \/ InitExport

Next ==
    \/ importRegistration_create
    \/ rsaJsonRpcEndpoint_create
    \/ \E c \in Codecs : RegisterCodec(c)
    \/ \E c \in Codecs : UnregisterCodec(c)
    \/ \E c \in Codecs : ImportTrackerAdd(c)
    \/ \E c \in Codecs : ImportTrackerRemove(c)
    \/ importRegistration_addRpcFac
    \/ importRegistration_removeRpcFac
    \/ importRegistration_destroy
    \/ importRegistration_stopRpcSvcTrkDone
    \/ \E s \in Services : RegisterService(s)
    \/ UnregisterService
    \/ EndpointTrackerAdd
    \/ EndpointTrackerRemove
    \/ AddSvcLock
    \/ AddSvcParse
    \/ AddSvcPublish
    \/ AddSvcUnlock
    \/ RemoveSvcLock
    \/ RemoveSvcClear
    \/ RemoveSvcUnlock
    \/ rsaJsonRpcEndpoint_destroy
    \/ rsaJsonRpcEndpoint_destroyCallback
    \/ \E t \in Reqs, in \in RequestInputs : HandleRequestEntry(t, in)
    \/ \E t \in Reqs : HandleRequestPre(t)
    \/ \E t \in Reqs : HandleRequestLock(t)
    \/ \E t \in Reqs : HandleRequestDispatch(t)
    \/ \E t \in Reqs : HandleRequestCallReturn(t)
    \/ \E t \in Reqs : HandleRequestUnlock(t)
    \/ \E t \in Reqs : HandleRequestPost(t)
    \/ \E t \in Reqs : HandleRequestRespond(t)
    \/ \E t \in Reqs : HandleRequestReturn(t)
    \/ \E t \in Reqs : HandleRequestOnFreed(t)

Spec == Init /\ [][Next]_vars

\* the transport at start: an empty pool, no call, every breaker closed
ShmInit ==
    /\ scenario = "shm"
    /\ NoCreate
    /\ NoImport
    /\ NoEndpoint
    /\ NoShm

ShmNext ==
    \/ \E c \in Callers, d \in Dests : ShmCall(c, d)
    \/ \E c \in Callers : CallerWake(c)
    \/ \E c \in Callers : CallerAccount(c)
    \/ \E k \in Callees : CalleeSetReplying(k)
    \/ \E k \in Callees, m \in Messages : CalleeLockReply(k, m)
    \/ \E k \in Callees : CalleeSetReplied(k)
    \/ \E k \in Callees : CalleeSetAbend(k)
    \/ ShmTick

ShmSpec == ShmInit /\ [][ShmNext]_vars

----------------------------------------------------------------------------
(* Claims *)

ImportNoRpcConfig(in) ==
    /\ ~ImportArgsBad(in)
    /\ ~in.hasConfigs \/ RsaRpcType(in.configs) = NoRpcType

\* C1: importRegistration_create answers an endpoint without the
\* imported-configurations property, or without a configuration carrying the
\* rpc type prefix, with CELIX_ILLEGAL_ARGUMENT and writes no registration.
C1_RejectsWithIllegalArgument ==
    (scenario = "create" /\ crPc = "done" /\ crIn.fn = "import" /\ ImportNoRpcConfig(crIn))
        => (crRes.status = CELIX_ILLEGAL_ARGUMENT /\ crRes.out = "unwritten")

ImportFailingPath(in) ==
    /\ in.fn = "import"
    /\ ~ImportArgsBad(in)
    /\ \/ ~in.hasConfigs
       \/ RsaRpcType(in.configs) = NoRpcType
       \/ FilterBytes(RsaRpcType(in.configs)) >= FilterSize
       \/ in.trkId < 0

EndpointFailingPath(in) ==
    /\ in.fn = "endpoint"
    /\ in.mutexStatus # CELIX_SUCCESS \/ in.trkId < 0

\* C2: on every failing construction path of both create functions the clone
\* and the object are released, no tracker is left registered, the out handle
\* is not written and the status returned is an error.
C2_FailedCreateLeavesNothing ==
    (scenario = "create" /\ crPc = "done"
        /\ (ImportFailingPath(crIn) \/ EndpointFailingPath(crIn)))
        => /\ crRes.obj = "freed"
           /\ crRes.desc = "freed"
           /\ crRes.icCopy # "live"
           /\ crRes.mtx # "init"
           /\ ~crRes.tracker
           /\ crRes.out = "unwritten"
           /\ crRes.status # CELIX_SUCCESS

LiveProxies == {i \in ProxyIds : proxies[i].state = "live"}

\* an add / remove callback of the import registration runs to its end
AddRpcFacRuns == impEvt.cb = "add" /\ impEvt'.cb = "idle" /\ import.obj = "live"
RemoveRpcFacRuns == impEvt.cb = "remove" /\ impEvt'.cb = "idle" /\ import.obj = "live"

\* C3: an add callback that finds a codec bound calls no createProxy and
\* leaves the bound codec, the proxy id and the proxies as they are; at most
\* one proxy of the registration is ever live.
C3_FirstWins ==
    /\ [](Cardinality(LiveProxies) <= 1)
    /\ [][(AddRpcFacRuns /\ rpcFac # NULL)
            => /\ proxyLog'.calls = <<>>
               /\ rpcFac' = rpcFac
               /\ proxySvcId' = proxySvcId
               /\ proxies' = proxies]_vars

\* C3: a second codec's add callback was ignored while the first codec's
\* proxy stays installed
C3_Witness ==
    /\ proxyLog.cb = "add"
    /\ proxyLog.calls = <<>>
    /\ rpcFac # NULL
    /\ rpcFac # proxyLog.svc
    /\ LiveProxies = {proxySvcId}

\* C4: the remove callback for the bound codec calls destroyProxy once, with
\* the installed proxy id, and clears the binding (codec none, proxy id -1);
\* an add callback on the unbound registration calls createProxy and, when
\* that succeeds, installs the new proxy.
C4_RemoveClearsThenRebinds ==
    /\ [][(RemoveRpcFacRuns /\ rpcFac = impEvt.svc)
            => /\ rpcFac' = NULL
               /\ proxySvcId' = -1
               /\ proxySvcId \in LiveProxies
               /\ proxies' = [proxies EXCEPT ![proxySvcId].state = "destroyed"]
               /\ proxyLog'.calls = <<[op |-> "destroyProxy", fac |-> rpcFac,
                                       ok |-> TRUE, id |-> proxySvcId]>>]_vars
    /\ [][(AddRpcFacRuns /\ rpcFac = NULL)
            => /\ Len(proxyLog'.calls) = 1
               /\ proxyLog'.calls[1].op = "createProxy"
               /\ proxyLog'.calls[1].fac = impEvt.svc
               /\ IF proxyLog'.calls[1].ok
                  THEN /\ rpcFac' = impEvt.svc
                       /\ proxySvcId' = proxyLog'.calls[1].id
                       /\ proxies[proxySvcId'].state = "unused"
                       /\ LiveProxies' = {proxySvcId'}
                  ELSE /\ rpcFac' = NULL
                       /\ proxySvcId' = -1
                       /\ proxies' = proxies]_vars

\* C4: after the first proxy was destroyed by a remove callback, an add
\* callback has installed a new one
C4_Witness ==
    /\ proxyLog.cb = "add"
    /\ rpcFac # NULL
    /\ proxySvcId >= 1
    /\ proxies[0].state = "destroyed"
    /\ LiveProxies = {proxySvcId}

\* C5: destroy only asks the tracker to stop; the registration / endpoint and
\* its cloned description are freed in the stop-completion callback, when no
\* service is tracked any more, and no add or remove callback runs on a freed
\* object.
C5_QuiesceThenFree ==
    /\ ~impUaf
    /\ EvtThread \notin epUaf
    /\ import.obj = "freed"
         => (impTrk.state = "stopped" /\ impTrk.tracked = {} /\ impEvt.cb = "idle"
             /\ import.desc = "freed")
    /\ import.obj = "live" => import.desc = "live"
    /\ impTrk.state \in {"open", "stopping"} => import.obj = "live"
    /\ endpoint.obj = "freed"
         => (epTrk.state = "stopped" /\ epTrk.tracked = NULL /\ epEvt.cb = "idle"
             /\ endpoint.desc = "freed")
    /\ endpoint.obj = "live" => endpoint.desc = "live"
    /\ epTrk.state \in {"open", "stopping"} => endpoint.obj = "live"

\* C5: destroy was called while a tracker callback was running on the
\* endpoint, and the endpoint has since been freed
C5_Witness ==
    /\ endpoint.obj = "freed"
    /\ endpoint.raced
    /\ descs.released # {}

AfterDispatch(t) ==
    /\ req[t].pc \in {"unlock", "post", "respond", "done"}
    /\ req[t].cont = "yes"

\* C6: a well-formed request that is not vetoed fails with
\* CELIX_ILLEGAL_STATE and without a response when it finds no service under
\* the lock; when it finds a service it is dispatched to that service and
\* succeeds if the service call succeeds.
C6_UnboundIsIllegalState ==
    \A t \in Reqs :
        AfterDispatch(t) =>
            /\ req[t].seen # "unread"
            /\ req[t].seen = NULL
                 => /\ req[t].status = CELIX_ILLEGAL_STATE
                    /\ req[t].szResponse = NULL
                    /\ req[t].callSvc = NULL
                    /\ req[t].callRc = -1
                    /\ req[t].pc = "done" => req[t].out = "empty"
            /\ req[t].seen # NULL
                 => /\ req[t].callSvc = req[t].seen
                    /\ req[t].callRc \in {0, 1}
                    /\ req[t].callRc = 0 => req[t].status = CELIX_SUCCESS
                    /\ (req[t].callRc = 0 /\ req[t].pc = "done") => req[t].out = "reply"

\* C6: of two identical requests one found no service and failed, the other
\* found the service bound and succeeded
C6_Witness ==
    \E t, u \in Reqs :
        /\ req[t].pc = "done" /\ req[u].pc = "done"
        /\ req[t].in = req[u].in
        /\ req[t].status = CELIX_ILLEGAL_STATE
        /\ req[u].status = CELIX_SUCCESS /\ req[u].callSvc # NULL

\* C7: while a request is inside the service invocation it holds the
\* endpoint lock, the service it calls is still the bound, tracked one and
\* the descriptor it uses is the stored, unreleased one, and the remove
\* callback is not past its lock; a request that found no service fails with
\* CELIX_ILLEGAL_STATE without an invocation.
C7_InvokeExcludesUnbind ==
    \A t \in Reqs :
        /\ req[t].pc = "calling"
             => /\ mutex = t
                /\ service # NULL
                /\ req[t].callSvc = service
                /\ epTrk.tracked = req[t].callSvc
                /\ req[t].callDesc = intfType
                /\ req[t].callDesc \in 1..descs.parsed
                /\ req[t].callDesc \notin descs.released
                /\ ~(epEvt.cb = "remove" /\ epEvt.pc \in {"locked", "unlock"})
        /\ (AfterDispatch(t) /\ req[t].callSvc = NULL)
             => (req[t].status = CELIX_ILLEGAL_STATE /\ req[t].callRc = -1)

\* C7: the remove callback waits for the lock while a request is inside the
\* service invocation
C7_Witness ==
    /\ epEvt.cb = "remove"
    /\ epEvt.pc = "lock"
    /\ \E t \in Reqs : req[t].pc = "calling"

\* C8 (as amended): the endpoint's service pointer and descriptor are
\* written only by a tracker callback that holds the endpoint lock, and a
\* request reads and uses them only while it holds that lock, after finding
\* the pointer non-NULL; the import registration has no lock: its codec and
\* proxy id are written only by an add or remove callback on the event
\* thread.
C8_BindingWrittenInCallbacks ==
    /\ [][/\ (service' # service \/ intfType' # intfType)
               => (epEvt.cb \in {"add", "remove"} /\ mutex = EvtThread /\ mutex' = EvtThread)
          /\ (rpcFac' # rpcFac \/ proxySvcId' # proxySvcId)
               => (impEvt.cb \in {"add", "remove"} /\ impEvt'.cb = "idle")]_vars
    /\ [](\A t \in Reqs :
            /\ req[t].pc \in {"locked", "calling", "unlock"} => mutex = t
            /\ req[t].callSvc # NULL => req[t].seen = req[t].callSvc)

\* C8: the add callback has published the service under the lock while a
\* request waits for that lock
C8_Witness ==
    /\ epEvt.cb = "add"
    /\ epEvt.pc = "unlock"
    /\ service # NULL
    /\ mutex = EvtThread
    /\ \E t \in Reqs : req[t].pc = "lock"

\* C8 (as claimed): the endpoint's service pointer and the registration's
\* codec / proxy pair are each written only while the owning object's lock
\* is held by the writing callback.
C8_WrittenUnderOwnersLock ==
    [][/\ (service' # service \/ intfType' # intfType) => mutex = EvtThread
       /\ (rpcFac' # rpcFac \/ proxySvcId' # proxySvcId) => ImportLockOwner = EvtThread]_vars

NonEmptyRequest(in) == in.nullArg = "none" /\ in.iov = "text"

DecodedRequest(in) == NonEmptyRequest(in) /\ in.json = "call"

C10_PostHookAfterAttempt ==
    \A t \in Reqs :
        /\ req[t].pc \in {"lock", "locked", "calling", "unlock"}
             => (req[t].cont = "yes" /\ req[t].hooks = <<"pre">>)
        /\ req[t].pc = "post"
             => (req[t].cont = "yes" /\ req[t].hooks = <<"pre">> /\ mutex # t
                 /\ req[t].seen # "unread")
        /\ (req[t].pc \in {"respond", "done"} /\ req[t].cont = "yes")
             => (req[t].hooks = <<"pre", "post">> /\ mutex # t)
        /\ req[t].cont = "no" => req[t].hooks = <<"pre">>
        /\ req[t].cont = "unset" => req[t].hooks = <<>>

\* C10: a call that failed because no service was bound has returned with
\* both hooks run, while another call failed with a service exception
C10_Witness ==
    \E t, u \in Reqs :
        /\ req[t].pc = "done" /\ req[t].status = CELIX_ILLEGAL_STATE
        /\ req[t].hooks = <<"pre", "post">>
        /\ req[u].pc \in {"respond", "done"} /\ req[u].status = CELIX_SERVICE_EXCEPTION
        /\ req[u].hooks = <<"pre", "post">>

\* C11: a well-formed request the pre-call hook vetoes returns CELIX_SUCCESS
\* with the response (NULL, 0); it never takes the endpoint lock, never reads
\* the service pointer and never calls the service, whatever the binding is.
C11_VetoReturnsEmptySuccess ==
    /\ [](\A t \in Reqs :
            req[t].cont = "no"
                => /\ req[t].pc \in {"respond", "done"}
                   /\ DecodedRequest(req[t].in)
                   /\ req[t].status = CELIX_SUCCESS
                   /\ req[t].szResponse = NULL
                   /\ req[t].out = "empty"
                   /\ req[t].seen = "unread"
                   /\ req[t].callSvc = NULL
                   /\ req[t].callRc = -1
                   /\ mutex # t)
    /\ [][\A t \in Reqs :
            (req[t].cont = "no" \/ req'[t].cont = "no")
                => (req'[t] = req[t] \/ (mutex' = mutex /\ service' = service))]_vars

\* C11: a vetoed call has returned while the service is bound and another
\* request is inside the service invocation, holding the lock
C11_Witness ==
    \E t, u \in Reqs :
        /\ req[t].pc = "done" /\ req[t].cont = "no"
        /\ req[t].status = CELIX_SUCCESS /\ req[t].out = "empty"
        /\ service # NULL
        /\ req[u].pc = "calling" /\ mutex = u

\* the add callback steps: parse fails, parse succeeds, publish, return
AddParseFails == epEvt.cb = "add" /\ epEvt.pc = "locked" /\ epEvt'.pc = "unlock"
AddParseSucceeds == epEvt.cb = "add" /\ epEvt.pc = "locked" /\ epEvt'.pc = "publish"
AddPublishes == epEvt.cb = "add" /\ epEvt.pc = "publish" /\ epEvt'.pc = "unlock"
AddReturns == epEvt.cb = "add" /\ epEvt.pc = "unlock" /\ epEvt'.cb = "idle"

\* C12: an add callback whose descriptor parse fails publishes no service and
\* returns with the endpoint unbound and intact, so that a request dispatched
\* then fails with CELIX_ILLEGAL_STATE; when the parse succeeds the new
\* descriptor is stored first and the service pointer published after it,
\* both while the callback holds the endpoint lock.
C12_ParseFailureLeavesUnbound ==
    /\ [][/\ AddParseFails
               => (service = NULL /\ service' = NULL /\ mutex = EvtThread
                   /\ descs' = descs /\ endpoint' = endpoint)
          /\ AddParseSucceeds
               => (service' = NULL /\ mutex = EvtThread /\ mutex' = EvtThread
                   /\ intfType' = descs'.parsed /\ descs'.parsed = descs.parsed + 1
                   /\ intfType' \notin descs'.released)
          /\ AddPublishes
               => (service' = epEvt.svc /\ mutex = EvtThread /\ mutex' = EvtThread
                   /\ intfType' = intfType /\ intfType \in 1..descs.parsed
                   /\ intfType \notin descs.released)
          /\ AddReturns
               => (service' = service /\ intfType' = intfType /\ mutex' = NoThread
                   /\ endpoint' = endpoint /\ endpoint.obj = "live")
          /\ service' # NULL => (service # NULL \/ AddPublishes)]_vars
    /\ [](\A t \in Reqs :
            (AfterDispatch(t) /\ req[t].seen = NULL)
                => (req[t].status = CELIX_ILLEGAL_STATE /\ req[t].callRc = -1))

\* C12: the service is tracked, its add callback has returned without a
\* descriptor ever being parsed, and a request dispatched after it has failed
\* with CELIX_ILLEGAL_STATE
C12_Witness ==
    /\ epTrk.tracked # NULL
    /\ epEvt.cb = "idle"
    /\ descs.parsed = 0
    /\ service = NULL
    /\ \E t \in Reqs :
        /\ req[t].pc = "unlock" /\ mutex = t
        /\ req[t].status = CELIX_ILLEGAL_STATE

C14_ServiceExceptionIsLocal ==
    /\ [][\A t \in Reqs :
            (req[t].pc = "calling" /\ req'[t].callRc = 1)
                => /\ req'[t].status = CELIX_SERVICE_EXCEPTION
                   /\ req'[t].szResponse = NULL
                   /\ service' = service /\ service # NULL
                   /\ intfType' = intfType
                   /\ descs' = descs
                   /\ endpoint' = endpoint
                   /\ epTrk' = epTrk /\ epEvt' = epEvt
                   /\ \A u \in Reqs \ {t} : req'[u] = req[u]]_vars
    /\ [](\A t \in Reqs :
            req[t].callRc = 1
                => /\ req[t].status = CELIX_SERVICE_EXCEPTION
                   /\ req[t].pc \in {"unlock", "post", "respond", "done"}
                   /\ req[t].pc = "unlock" => mutex = t
                   /\ req[t].pc # "unlock" => mutex # t
                   /\ req[t].pc = "done" => req[t].out = "empty")

\* C14: one call has returned its service exception; another call to the
\* same, still bound service has taken the lock after it and succeeded
C14_Witness ==
    \E t, u \in Reqs :
        /\ req[t].pc = "done" /\ req[t].status = CELIX_SERVICE_EXCEPTION
        /\ req[u].pc = "unlock" /\ mutex = u
        /\ req[u].callRc = 0 /\ req[u].status = CELIX_SUCCESS
        /\ req[u].callSvc = service /\ service = req[t].callSvc

----------------------------------------------------------------------------
(* Claims about the shared-memory transport *)

\* the moves of msgState within one call
MsgStateMoves ==
    {<<REQUESTING, REPLYING>>, <<REQUESTING, REPLIED>>, <<REPLYING, REPLIED>>,
     <<REQUESTING, ABEND>>, <<REPLYING, ABEND>>}

\* the step changes slot s while its lock is held: the lock is free before
\* the step, which takes and releases it, or the serving thread that holds
\* it ends its locked section with the step
UnderSlotLock(s) ==
    \/ shmSlot[s].lock = NoThread
    \/ \E k \in Callees :
        /\ shmSlot[s].lock = k
        /\ shmCallee[k].slot = s
        /\ shmCallee'[k] = CalleeIdle

\* C15: the msgState of a slot changes only under the slot's lock, and
\* within one call it only moves from REQUESTING to REPLYING, from REQUESTING
\* or REPLYING to REPLIED, or from REQUESTING or REPLYING to ABEND; nothing
\* follows REPLIED or ABEND but the caller giving the slot back.  A call
\* begins with REQUESTING.
C15_MsgStateProtocol ==
    [][\A s \in Slots :
        shmSlot'[s].msgState # shmSlot[s].msgState
            => /\ UnderSlotLock(s)
               /\ \/ /\ ~shmSlot[s].alloc /\ shmSlot'[s].alloc
                     /\ shmSlot'[s].msgState = REQUESTING
                  \/ /\ shmSlot[s].alloc /\ ~shmSlot'[s].alloc
                     /\ shmSlot'[s].msgState = UNSET
                     /\ \E c \in Callers : shmCaller[c].slot = s /\ shmCaller'[c].slot = 0
                  \/ /\ shmSlot[s].alloc /\ shmSlot'[s].alloc
                     /\ shmSlot'[s].ver = shmSlot[s].ver
                     /\ <<shmSlot[s].msgState, shmSlot'[s].msgState>> \in MsgStateMoves]_vars

\* C15: a serving thread that went through REPLYING holds the lock of a
\* slot in REPLYING and is about to set ABEND, after an earlier call has ended
\* with a reply
C15_Witness ==
    \E s \in Slots, k \in Callees :
        /\ shmSlot[s].alloc /\ shmSlot[s].msgState = REPLYING
        /\ shmSlot[s].lock = k /\ shmCallee[k].pc = "abend"
        /\ shmResult.status = "Success"

\* C16: a slot in REPLIED holds the whole reply to the request of its call
\* and the size of it, so the caller that observes REPLIED has read exactly
\* what the callee wrote for its request; a caller that observes ABEND has
\* read nothing, and its call ends as the failure Abend.
C16_RepliedReadsWholeReply ==
    /\ [](\A s \in Slots :
            (shmSlot[s].alloc /\ shmSlot[s].msgState = REPLIED)
                => /\ shmSlot[s].payload = ReplyFor(shmSlot[s].request)
                   /\ shmSlot[s].actualReplyedSize = Len(shmSlot[s].payload))
    /\ [](\A c \in Callers :
            shmCaller[c].pc = "account"
                => /\ shmCaller[c].observed = REPLIED => shmCaller[c].reply = ReplyFor(c)
                   /\ shmCaller[c].observed # REPLIED => shmCaller[c].reply = <<>>)
    /\ [][\A c \in Callers :
            (shmCaller[c].pc = "account" /\ shmCaller'[c].pc = "idle")
                => /\ shmResult'.status = "Success" => shmCaller[c].observed = REPLIED
                   /\ shmCaller[c].observed = ABEND => shmResult'.status = "Abend"]_vars

\* C16: a caller has read the reply to its request from a slot it observed in
\* REPLIED, after a call that observed ABEND ended as Abend
C16_Witness ==
    \E c \in Callers :
        /\ shmCaller[c].pc = "account"
        /\ shmCaller[c].observed = REPLIED
        /\ shmCaller[c].reply = ReplyFor(c)
        /\ shmResult.status = "Abend"

\* C17: a wait that ends without REPLIED or ABEND gives the slot back to the
\* pool at once, free for the next call, and the call ends as Timeout.  A
\* free slot is blank and unlocked until a caller allocates it, and whatever
\* changes in an allocated slot is written by a serving thread that holds
\* the handle of the very call the slot belongs to, or by that slot's caller:
\* no late callee writes into a freed or reallocated slot.
C17_TimeoutFreesAndFences ==
    /\ [][\A c \in Callers :
            (shmCaller[c].pc = "wait" /\ shmCaller'[c].pc = "account"
                 /\ shmCaller'[c].observed = "TIMEOUT")
                => /\ shmSlot'[shmCaller[c].slot] =
                        FreeSlot(shmSlot'[shmCaller[c].slot].ver)
                   /\ shmCaller[c].slot \in {s \in Slots : ~shmSlot'[s].alloc}]_vars
    /\ [][\A c \in Callers :
            (shmCaller[c].pc = "account" /\ shmCaller'[c].pc = "idle"
                 /\ shmCaller[c].observed = "TIMEOUT")
                => shmResult'.status = "Timeout"]_vars
    /\ [](\A s \in Slots : ~shmSlot[s].alloc => shmSlot[s] = FreeSlot(shmSlot[s].ver))
    /\ [][\A s \in Slots :
            shmSlot'[s] # shmSlot[s]
                => \/ \E c \in Callers :
                        \/ shmCaller[c].slot = s /\ shmCaller'[c].slot = 0
                        \/ shmCaller[c].slot = 0 /\ shmCaller'[c].slot = s
                   \/ /\ shmSlot[s].alloc /\ shmSlot'[s].alloc
                      /\ shmSlot'[s].ver = shmSlot[s].ver
                      /\ shmSlot'[s].request = shmSlot[s].request
                      /\ \E k \in Callees :
                            \/ /\ shmCallee'[k].slot = s
                               /\ shmCallee'[k].ver = shmSlot[s].ver
                            \/ /\ shmCallee[k].slot = s
                               /\ shmCallee[k].ver = shmSlot[s].ver
                               /\ shmCallee'[k] = CalleeIdle]_vars

\* C17: a call has timed out, its slot has gone to a later call, and a
\* serving thread that computed the reply for the first call still holds its
\* handle of the slot
C17_Witness ==
    \E s \in Slots, k \in Callees :
        /\ shmResult.status = "Timeout"
        /\ shmSlot[s].alloc /\ shmSlot[s].msgState = REQUESTING
        /\ shmCallee[k].pc = "compute" /\ shmCallee[k].slot = s
        /\ shmCallee[k].ver # shmSlot[s].ver

\* the calls to destination d that hold a place among its in-flight calls
InFlightTo(d) ==
    {c \in Callers : shmCaller[c].pc \in {"wait", "account"} /\ shmCaller[c].dest = d}

\* the step ends with a new last result: a call to destination d that was
\* turned away with status st
RejectedWith(d, st) ==
    /\ shmResult' # shmResult
    /\ shmResult' = [dest |-> d, status |-> st]

\* the step admits a call of caller c to destination d
Admitted(c, d) ==
    /\ shmCaller[c].pc = "idle"
    /\ shmCaller'[c].pc = "wait"
    /\ shmCaller'[c].dest = d

\* C18: the in-flight count of a destination is the number of its calls
\* under way and never exceeds the configured maximum.  A call is admitted only
\* below the maximum and takes one place; a call turned away as Busy found
\* the maximum reached, takes no place and no slot and is not queued; the end
\* of a call gives its place back, so that the next call is admitted.
C18_AdmissionLimit ==
    /\ [](\A d \in Dests :
            /\ shmDest[d].inflight = Cardinality(InFlightTo(d))
            /\ shmDest[d].inflight <= MaxConcurrentInvocations)
    /\ [][\A d \in Dests :
            /\ \A c \in Callers :
                Admitted(c, d)
                    => /\ shmDest[d].inflight < MaxConcurrentInvocations
                       /\ shmDest'[d].inflight = shmDest[d].inflight + 1
            /\ RejectedWith(d, "Busy")
                    => /\ shmDest[d].inflight = MaxConcurrentInvocations
                       /\ UNCHANGED <<shmSlot, shmQueue, shmCaller, shmDest>>
            /\ \A c \in Callers :
                (shmCaller[c].pc = "account" /\ shmCaller'[c].pc = "idle"
                     /\ shmCaller[c].dest = d)
                    => shmDest'[d].inflight = shmDest[d].inflight - 1]_vars

\* C18: with the maximum of calls to a destination in flight, one more call
\* to it has been turned away as Busy
C18_Witness ==
    \E d \in Dests :
        /\ shmDest[d].inflight = MaxConcurrentInvocations
        /\ Cardinality(InFlightTo(d)) = MaxConcurrentInvocations
        /\ ~BreakerIsOpen(d)
        /\ shmResult = [dest |-> d, status |-> "Busy"]
        /\ \E c \in Callers : shmCaller[c].pc = "idle"

\* the step ends the call of caller c, which went to destination d
Ends(c, d) ==
    /\ shmCaller[c].pc = "account"
    /\ shmCaller'[c].pc = "idle"
    /\ shmCaller[c].dest = d

\* C19: the end of a call as Timeout, Abend or CodecError adds one to the
\* failure counter of its destination, and the end of a call as Success sets
\* it to zero.  The failure that brings the counter to the threshold starts a
\* cooldown window, and while the counter is at the threshold and a window
\* runs no call to the destination is admitted: each is turned away as
\* BreakerOpen and touches no slot.  Below the threshold no window runs.  A
\* call to one destination, admitted, turned away or ended, leaves the record
\* of every other destination as it is.
C19_FailureCounterAndBreaker ==
    /\ [][\A d \in Dests, c \in Callers :
            Ends(c, d)
                => /\ shmResult'.dest = d
                   /\ shmResult'.status \in {"Timeout", "Abend", "CodecError"}
                        => shmDest'[d].failures = shmDest[d].failures + 1
                   /\ shmResult'.status = "Success" => shmDest'[d].failures = 0
                   /\ shmResult'.status \in {"Success", "Timeout", "Abend", "CodecError"}
                   /\ shmDest'[d].failures = MaxConsecutiveFailures
                        => shmDest'[d].cooldown = BreakerCooldown
                   /\ \A e \in Dests \ {d} : shmDest'[e] = shmDest[e]]_vars
    /\ [][\A d \in Dests :
            /\ \A c \in Callers :
                Admitted(c, d)
                    => /\ ~(BreakerIsOpen(d) /\ shmDest[d].cooldown > 0)
                       /\ shmDest'[d].failures = shmDest[d].failures
                       /\ \A e \in Dests \ {d} : shmDest'[e] = shmDest[e]
            /\ RejectedWith(d, "BreakerOpen")
                    => /\ shmDest[d].failures >= MaxConsecutiveFailures
                       /\ UNCHANGED <<shmSlot, shmQueue, shmCaller, shmDest>>
            /\ shmDest'[d].failures # shmDest[d].failures
                    => \E c \in Callers : Ends(c, d)]_vars
    /\ [](\A d \in Dests :
            shmDest[d].failures < MaxConsecutiveFailures
                => shmDest[d].cooldown = 0 /\ shmDest[d].probe = "none")

\* C19: exactly the threshold of consecutive failures has opened the breaker
\* of one destination, its window runs and a call to it has been turned away
\* as BreakerOpen with the pool untouched; then a call to another destination
\* has been admitted
C19_Witness ==
    \E d, e \in Dests, c \in Callers :
        /\ d # e
        /\ shmDest[d].failures = MaxConsecutiveFailures
        /\ shmDest[d].cooldown > 0
        /\ shmDest[d].inflight = 0
        /\ shmResult = [dest |-> d, status |-> "BreakerOpen"]
        /\ shmCaller[c].pc = "wait" /\ shmCaller[c].dest = e
        /\ shmDest[e].failures = 0 /\ shmDest[e].inflight = 1

HoldersOf(s) == {c \in Callers : shmCaller[c].slot = s}

----------------------------------------------------------------------------
(* Further claims about the import registration and the export endpoint *)

OthersTracked(c) == (impTrk.tracked \cap codecs) \ {c}

\* C23: the remove callback for the bound codec leaves the registration
\* unbound, with no proxy installed and no createProxy called, also when
\* another codec is tracked and still registered; and a codec becomes the
\* bound one only in an add callback delivered for that very codec, so the
\* registration stays unbound until such a callback comes.
C23_NoRetroactiveFailover ==
    /\ [][(RemoveRpcFacRuns /\ rpcFac = impEvt.svc /\ OthersTracked(impEvt.svc) # {})
            => /\ rpcFac' = NULL
               /\ proxySvcId' = -1
               /\ LiveProxies' = {}
               /\ \A i \in 1..Len(proxyLog'.calls) : proxyLog'.calls[i].op # "createProxy"]_vars
    /\ [][(rpcFac' # rpcFac /\ rpcFac' # NULL)
            => /\ AddRpcFacRuns
               /\ rpcFac = NULL
               /\ rpcFac' = impEvt.svc]_vars
    /\ [][(proxySvcId' # proxySvcId /\ proxySvcId' >= 0) => AddRpcFacRuns]_vars

\* C23: the bound codec was removed and its proxy destroyed; the
\* registration is unbound and no callback runs or is due, although the
\* other codec is tracked and still registered
C23_Witness ==
    /\ import.obj = "live"
    /\ impTrk.state = "open"
    /\ impEvt.cb = "idle"
    /\ proxyLog.cb = "remove"
    /\ Len(proxyLog.calls) = 1
    /\ proxyLog.calls[1].op = "destroyProxy"
    /\ rpcFac = NULL
    /\ proxySvcId = -1
    /\ OthersTracked(proxyLog.svc) # {}
    /\ codecs \subseteq impTrk.tracked

\* C24: a remove callback for a codec that is not the bound one, be it that
\* its add was ignored or that its createProxy failed, calls neither
\* destroyProxy nor any other function of a codec and leaves the bound codec,
\* the installed proxy id and every proxy as they are.
C24_RemoveOfInactiveIsNoOp ==
    [][(RemoveRpcFacRuns /\ rpcFac # impEvt.svc)
            => /\ proxyLog' = [cb |-> "remove", svc |-> impEvt.svc, calls |-> <<>>]
               /\ rpcFac' = rpcFac
               /\ proxySvcId' = proxySvcId
               /\ proxies' = proxies
               /\ import' = import]_vars

\* C24: the remove callback for a codec that was not bound has returned
\* without a call, and the other codec's proxy is still installed
C24_Witness ==
    /\ proxyLog = [cb |-> "remove", svc |-> proxyLog.svc, calls |-> <<>>]
    /\ rpcFac # NULL
    /\ rpcFac # proxyLog.svc
    /\ proxySvcId \in LiveProxies
    /\ proxies[proxySvcId].fac = rpcFac
    /\ proxyLog.svc \notin impTrk.tracked

\* C25: the only proxy that can be live is the installed one, and no proxy
\* is destroyed twice.  Once destroy has stopped the tracker, a codec that is
\* still bound is still tracked, so that its remove callback comes before
\* the stop-completion callback; that remove callback destroys the installed
\* proxy, and when the stop-completion callback frees the registration no
\* proxy is live: every proxy a createProxy handed out has been destroyed once.
C25_NoProxyLeak ==
    /\ [](scenario = "import"
            => /\ LiveProxies \subseteq {proxySvcId}
               /\ \A i \in ProxyIds : proxies[i].state # "destroyedTwice"
               /\ (impTrk.state = "stopping" /\ rpcFac # NULL)
                    => (rpcFac \in impTrk.tracked /\ import.obj = "live")
               /\ import.obj = "freed"
                    => /\ LiveProxies = {}
                       /\ rpcFac = NULL
                       /\ impTrk.state = "stopped"
                       /\ ~impUaf)
    /\ [][(RemoveRpcFacRuns /\ impTrk.state = "stopping" /\ rpcFac = impEvt.svc)
            => /\ proxies[proxySvcId].state = "live"
               /\ proxies'[proxySvcId].state = "destroyed"
               /\ LiveProxies' = {}
               /\ import'.obj = "live"]_vars
    /\ [][(import.obj = "live" /\ import'.obj = "freed")
            => /\ LiveProxies = {}
               /\ impTrk.tracked = {}
               /\ proxies' = proxies]_vars

\* C25: destroy was called and the registration has been freed; the last
\* callback was the remove callback for a codec that is still registered, it
\* destroyed the installed proxy, and no proxy is live
C25_Witness ==
    /\ import.obj = "freed"
    /\ import.destroyCalled
    /\ impTrk.state = "stopped"
    /\ proxyLog.cb = "remove"
    /\ proxyLog.svc \in codecs
    /\ Len(proxyLog.calls) = 1
    /\ proxyLog.calls[1].op = "destroyProxy"
    /\ proxies[proxyLog.calls[1].id].state = "destroyed"
    /\ LiveProxies = {}

\* C26: the stop-completion callback has not destroyed the mutex or freed
\* the endpoint while a handleRequest call is in flight: while the mutex is
\* destroyed or the endpoint freed, no request holds the lock, none is
\* between its first and its last read of the endpoint, and none has read
\* freed memory.
C26_NoFreeUnderRequest ==
    (scenario = "export" /\ (endpoint.obj = "freed" \/ endpoint.mtx = "destroyed"))
        => /\ \A t \in Reqs : ~InHandleRequest(t) /\ mutex # t
           /\ epUaf = {}

\* C27: whatever add and remove callbacks have run, a service pointer that
\* is set while the endpoint lock is free comes with the descriptor parsed by
\* the add callback that published it, and that descriptor is not released.
\* A descriptor is released only by the remove callback, under the lock, in
\* the step that takes the service pointer away, and none is released twice.
C27_ExportBindingInvariant ==
    /\ [](scenario = "export"
            => /\ (mutex = NoThread /\ service # NULL)
                    => /\ intfType \in 1..descs.parsed
                       /\ intfType \notin descs.released
               /\ service # NULL => intfType \notin descs.released
               /\ ~descs.releasedTwice
               /\ descs.released \subseteq 1..descs.parsed)
    /\ [][descs'.released # descs.released
            => /\ descs'.released = descs.released \cup {intfType}
               /\ intfType \notin descs.released
               /\ epEvt.cb = "remove"
               /\ mutex = EvtThread
               /\ service = epEvt.svc
               /\ service' = NULL]_vars
    /\ [][(service' # service /\ service' # NULL)
            => /\ intfType = descs.parsed
               /\ intfType' = intfType
               /\ intfType \notin descs.released]_vars

\* C27: after one add and remove cycle released the first descriptor, the
\* service is published again with the second descriptor and the lock is free
C27_Witness ==
    /\ scenario = "export"
    /\ endpoint.obj = "live"
    /\ mutex = NoThread
    /\ epEvt.cb = "idle"
    /\ service # NULL
    /\ intfType = 2
    /\ descs.released = {1}

====
